---- MODULE Spec2Model ----
(***************************************************************************)
(* Model of updatebot's upstream-commit reconciliation                     *)
(* (components/scmprovider.py: Commit, SCMProvider.check_for_update,       *)
(* SCMProvider._commits_since, SCMProvider._print_differing_commit_lists)  *)
(* and of its Treeherder/Taskcluster client (apis/taskcluster.py:          *)
(* failure_classifications, get_job_details, retrigger_jobs).              *)
(*                                                                         *)
(* A Python str is a sequence of symbols; a symbol is one TLA+ string that *)
(* stands for a run of characters without whitespace, "|" or "*" (a        *)
(* revision hash, a branch name, a path), or for one of the characters     *)
(* " ", "\n", "\t", "|", "*".  str.split, str.strip and str.replace are    *)
(* computed on that representation as Python computes them.                *)
(*                                                                         *)
(* The version-control collaborator (self.run) is the environment: the     *)
(* upstream repository is a commit graph with two branches, commits are    *)
(* created in commit-date order, and git's output for each command is      *)
(* computed from that graph.  The text git prints for a date and for a     *)
(* diff is what the command runner hands back; it is fixed when the        *)
(* provider is constructed.                                                *)
(***************************************************************************)
EXTENDS Integers, Sequences, FiniteSets, TLC

VARIABLES
    parents,        \* upstream: commit id -> set of parent commit ids
    tip,            \* upstream: branch name -> commit id of its tip
    date_text,      \* what the runner prints for %ai and %ci
    diff_text,      \* what the runner prints for git diff --name-status
    pc,             \* position of control in check_for_update
    args,           \* [revision, branch, jobs]: library.revision, task.branch, all_library_jobs
    locals,         \* the local variables of check_for_update
    fs,             \* [cwd, tmpdir]: working directory and whether the temporary directory exists
    outcome,        \* [kind, value]: the pending return value or exception
    log,            \* what was handed to self.logger.log, in order
    trace,          \* what the call has done: _commits_since calls, populate_details calls, ...
    first,          \* outcome of the preceding call when this call repeats it with identical inputs
    filed,          \* the job recorded for an earlier returned batch: [branch, version, commits]
    commit,         \* a Commit object on its own: [made, raised, self, calls]
    _failure_classifications,   \* TaskclusterProvider._failure_classifications
    requests,       \* the HTTP exchanges of the provider, in order
    tc              \* the TaskclusterProvider call in progress: [pc, args, locals, outcome, calls]

vars == <<parents, tip, date_text, diff_text, pc, args, locals, fs, outcome, log, trace, first, filed,
          commit, _failure_classifications, requests, tc>>

\* the state check_for_update works on
scm_vars == <<parents, tip, date_text, diff_text, pc, args, locals, fs, outcome, log, trace, first, filed>>

\* the state of a TaskclusterProvider
taskcluster_vars == <<_failure_classifications, requests, tc>>

upstream_vars == <<parents, tip>>
runner_vars == <<date_text, diff_text>>

-----------------------------------------------------------------------------
(* Bounds *)

MaxCommits == 4
MaxJobs == 1
\* calls of populate_details on one Commit object
MaxPopulateCalls == 2
\* accesses to the failure_classifications property
MaxAccesses == 3
\* pages of one paginated job list
MaxPages == 3
\* jobs in the job_list handed to retrigger_jobs, actions in an action catalog
MaxListed == 2

-----------------------------------------------------------------------------
(* Names *)

RevisionNames == <<"R0", "R1", "R2", "R3", "R4", "R5", "R6", "R7">>

Revision(c) == RevisionNames[c + 1]

Branches == {"dev", "main"}

DefaultBranch == "main"

\* task.branch: the empty string when the task names no branch
TaskBranches == {"", "dev"}

OtherBranch(b) == IF b = "main" THEN "dev" ELSE "main"

\* "2020-04-21" as a mock runner may print it, and git's %ai / %ci:
\* "2020-04-21 10:03:22 -0500"
DateTexts == {<<"date">>, <<"date", " ", "time", " ", "zone">>}

\* git diff --name-status: nothing changed, or one line "M<TAB>f.c"
DiffTexts == {<<>>, <<"M", "\t", "f.c", "\n">>}

\* one line of git diff --name-status
NameStatusLine(status, path) == <<status, "\t", path, "\n">>

\* git diff --name-status outputs of up to three changed files, and of a rename
NameStatusTexts ==
    DiffTexts \cup
    { NameStatusLine("A", "g.c"),
      NameStatusLine("D", "h.c"),
      NameStatusLine("T", "k.c"),
      NameStatusLine("M", "f.c") \o NameStatusLine("A", "g.c"),
      NameStatusLine("M", "f.c") \o NameStatusLine("A", "g.c") \o NameStatusLine("D", "h.c"),
      <<"R100", "\t", "old.c", "\t", "new.c", "\n">> }

Whitespace == {" ", "\n", "\t"}

-----------------------------------------------------------------------------
(* Python str and list operations *)

RECURSIVE SplitAcc(_, _, _)
SplitAcc(s, cur, out) ==
    IF s = <<>>
    THEN IF cur = <<>> THEN out ELSE Append(out, cur)
    ELSE IF Head(s) \in Whitespace
         THEN SplitAcc(Tail(s), <<>>, IF cur = <<>> THEN out ELSE Append(out, cur))
         ELSE SplitAcc(Tail(s), Append(cur, Head(s)), out)

\* str.split(): split on runs of whitespace, no empty strings
split(s) == SplitAcc(s, <<>>, <<>>)

RECURSIVE SplitSepAcc(_, _, _, _)
SplitSepAcc(s, sep, cur, out) ==
    IF s = <<>>
    THEN Append(out, cur)
    ELSE IF Head(s) = sep
         THEN SplitSepAcc(Tail(s), sep, <<>>, Append(out, cur))
         ELSE SplitSepAcc(Tail(s), sep, Append(cur, Head(s)), out)

\* str.split(sep): split on every sep, empty strings kept
split_sep(s, sep) == SplitSepAcc(s, sep, <<>>, <<>>)

RECURSIVE lstrip(_)
lstrip(s) == IF s # <<>> /\ Head(s) \in Whitespace THEN lstrip(Tail(s)) ELSE s

RECURSIVE rstrip(_)
rstrip(s) ==
    IF s # <<>> /\ s[Len(s)] \in Whitespace THEN rstrip(SubSeq(s, 1, Len(s) - 1)) ELSE s

strip(s) == rstrip(lstrip(s))

\* str.replace(old, ""), old one character
replace(s, old) == SelectSeq(s, LAMBDA ch : ch # old)

\* the list left newest first: commits.reverse() forgotten
reverse_forgotten(l) == l

reverse(l) == [i \in 1..Len(l) |-> l[Len(l) + 1 - i]]

RECURSIVE Concat(_)
Concat(ss) == IF ss = <<>> THEN <<>> ELSE Head(ss) \o Concat(Tail(ss))

-----------------------------------------------------------------------------
(* The version-control collaborator *)

Commits == DOMAIN parents

RECURSIVE Reach(_)
\* the commits reachable from c, c included
Reach(c) == {c} \cup UNION {Reach(p) : p \in parents[c]}

Max(S) == CHOOSE m \in S : \A o \in S : o <= m

RECURSIVE NewestFirst(_)
\* git log's order: by commit date, newest first
NewestFirst(S) ==
    IF S = {} THEN <<>> ELSE LET m == Max(S) IN <<m>> \o NewestFirst(S \ {m})

\* the commit a revision string names
IdOf(revision) == CHOOSE c \in Commits : <<Revision(c)>> = revision

\* stdout of git log --pretty=%H|%ai|%ci <revision>..HEAD
GitLog(revision, head) ==
    LET cs == NewestFirst(Reach(tip[head]) \ Reach(IdOf(revision)))
    IN  Concat([i \in 1..Len(cs) |->
            <<Revision(cs[i]), "|">> \o date_text \o <<"|">> \o date_text \o <<"\n">>])

\* stdout of git rev-parse --abbrev-ref HEAD
GitRevParse(head) == <<head, "\n">>

\* the local branches of the clone, as git branch lists them
LocalBranches(head) == IF head = DefaultBranch THEN <<"main">> ELSE <<"dev", "main">>

\* stdout of git branch --contains <revision>
GitBranchContains(revision, head) ==
    LET bs == SelectSeq(LocalBranches(head), LAMBDA b : IdOf(revision) \in Reach(tip[b]))
    IN  Concat([i \in 1..Len(bs) |->
            <<IF bs[i] = head THEN "*" ELSE " ", " ", bs[i], "\n">>])

\* stdout of git diff --name-status <revision>^ <revision>
GitDiff(revision) == diff_text

\* stdout of git log --pretty=%s -1 <revision> and of git log --pretty=%b -1 <revision>
GitSubject(revision) == <<"subject-of", " ">> \o revision \o <<"\n">>

GitBody(revision) == <<"body-of", " ">> \o revision \o <<"\n">>

-----------------------------------------------------------------------------
(* class Commit *)

IndexError == <<"IndexError", "list index out of range">>

Unset == <<"<unset>">>

\* Commit.__init__; [raised, commit]
Commit(pretty_line) ==
    LET parts == split_sep(pretty_line, "|")
    IN  IF Len(parts) < 3
        THEN [raised |-> TRUE, commit |-> <<>>]
        ELSE [raised |-> FALSE,
              commit |-> << [revision |-> parts[1],
                             author_date |-> parts[2],
                             commit_date |-> parts[3],
                             files_modified |-> <<>>,
                             files_added |-> <<>>,
                             files_deleted |-> <<>>,
                             files_other |-> <<>>,
                             summary |-> Unset,
                             description |-> Unset] >>]

RECURSIVE PopulateFiles(_, _)
\* the loop over files_changed of Commit.populate_details; [raised, commit]
PopulateFiles(c, files_changed) ==
    IF files_changed = <<>>
    THEN [raised |-> FALSE, commit |-> c]
    ELSE LET f == strip(Head(files_changed))
             parts == split_sep(f, "\t")
         IN  IF f = <<>>
             THEN PopulateFiles(c, Tail(files_changed))
             ELSE IF Len(parts) < 2
             THEN [raised |-> TRUE, commit |-> c]
             ELSE IF parts[1] = <<"M">>
             THEN PopulateFiles([c EXCEPT !.files_modified = Append(@, parts[2])],
                                Tail(files_changed))
             ELSE IF parts[1] = <<"A">>
             THEN PopulateFiles([c EXCEPT !.files_added = Append(@, parts[2])],
                                Tail(files_changed))
             ELSE IF parts[1] = <<"D">>
             THEN PopulateFiles([c EXCEPT !.files_deleted = Append(@, parts[2])],
                                Tail(files_changed))
             ELSE PopulateFiles([c EXCEPT !.files_other =
                                        Append(@, parts[1] \o <<" ">> \o parts[2])],
                                Tail(files_changed))

\* the summary and the description grow with every call instead of being assigned
populate_details_appending(c) ==
    LET r == PopulateFiles(c, split(GitDiff(c.revision)))
    IN  IF r.raised
        THEN r
        ELSE [raised |-> FALSE,
              commit |-> [r.commit EXCEPT !.summary = @ \o GitSubject(c.revision),
                                          !.description = @ \o GitBody(c.revision)]]

\* Commit.populate_details; [raised, commit]
populate_details(c) ==
    LET r == PopulateFiles(c, split(GitDiff(c.revision)))
    IN  IF r.raised
        THEN r
        ELSE [raised |-> FALSE,
              commit |-> [r.commit EXCEPT !.summary = GitSubject(c.revision),
                                          !.description = GitBody(c.revision)]]

\* Commit.__eq__
CommitEq(a, b) == a.revision = b.revision

\* list.__eq__ on two lists of Commit
CommitListEq(a, b) == Len(a) = Len(b) /\ \A i \in 1..Len(a) : CommitEq(a[i], b[i])

\* Commit.__str__
CommitStr(c) == <<"Commit: ">> \o c.revision

-----------------------------------------------------------------------------
(* class SCMProvider *)

RECURSIVE CommitsOf(_)
\* [Commit(c) for c in commits if c]; [raised, value]
CommitsOf(commits) ==
    IF commits = <<>>
    THEN [raised |-> FALSE, value |-> <<>>]
    ELSE IF Head(commits) = <<>>
    THEN CommitsOf(Tail(commits))
    ELSE LET c == Commit(Head(commits))
             rest == CommitsOf(Tail(commits))
         IN  IF c.raised \/ rest.raised
             THEN [raised |-> TRUE, value |-> <<>>]
             ELSE [raised |-> FALSE, value |-> c.commit \o rest.value]

\* SCMProvider._commits_since; [raised, value]
_commits_since(revision, head) ==
    LET lines == split(GitLog(revision, head))
        commits == reverse([i \in 1..Len(lines) |-> strip(lines[i])])
    IN  CommitsOf(commits)

\* only the problem is logged, the two lists are not
_print_differing_commit_lists_problem_only(list_a, list_a_name, list_b, list_b_name, problem) ==
    << <<"Error", "%s.", problem>> >>

\* what SCMProvider._print_differing_commit_lists logs before it raises
_print_differing_commit_lists(list_a, list_a_name, list_b, list_b_name, problem) ==
    << <<"Error", "%s.", problem>>,
       <<"Error", "%s (%s)", list_a_name, Len(list_a)>> >>
    \o [i \in 1..Len(list_a) |-> <<"Error", "  - %s", CommitStr(list_a[i])>>]
    \o << <<"Error", "%s (%s)", list_b_name, Len(list_b)>> >>
    \o [i \in 1..Len(list_b) |-> <<"Error", "  - %s", CommitStr(list_b[i])>>]

\* not containing_branches: only an empty list of branches is refused
not_contained_none(current_branch, containing_branches) == containing_branches = <<>>

\* current_branch not in containing_branches
not_contained(current_branch, containing_branches) ==
    ~\E i \in 1..Len(containing_branches) : containing_branches[i] = current_branch

\* the early return of Step 2 left out
no_new_commits_unchecked(all_new_upstream_commits) == FALSE

\* not all_new_upstream_commits
no_new_commits(all_new_upstream_commits) == all_new_upstream_commits = <<>>

\* the early return of Step 4 left out
no_unseen_commits_unchecked(unseen_new_upstream_commits) == FALSE

\* len(unseen_new_upstream_commits) == 0
no_unseen_commits(unseen_new_upstream_commits) == Len(unseen_new_upstream_commits) = 0

\* the job's version is never looked up among the new commits
version_in_never(most_recent_job, all_new_upstream_commits) == FALSE

\* most_recent_job.version in [c.revision for c in all_new_upstream_commits]
version_in(most_recent_job, all_new_upstream_commits) ==
    \E i \in 1..Len(all_new_upstream_commits) :
        most_recent_job.version = all_new_upstream_commits[i].revision

\* the unseen list is left out of the offset
offset_index_of_all_new(all_new_upstream_commits, unseen_new_upstream_commits) ==
    Len(all_new_upstream_commits)

\* offsetIndex = len(all_new_upstream_commits) - len(unseen_new_upstream_commits)
offset_index(all_new_upstream_commits, unseen_new_upstream_commits) ==
    Len(all_new_upstream_commits) - Len(unseen_new_upstream_commits)

\* all_new_upstream_commits[offsetIndex:], offsetIndex >= 0
slice_from(all_new_upstream_commits, offsetIndex) ==
    SubSeq(all_new_upstream_commits, offsetIndex + 1, Len(all_new_upstream_commits))

\* only the lengths of the two lists are compared
differs_in_length(all_new_upstream_commits, offsetIndex, unseen_new_upstream_commits) ==
    Len(slice_from(all_new_upstream_commits, offsetIndex)) # Len(unseen_new_upstream_commits)

\* all_new_upstream_commits[offsetIndex:] != unseen_new_upstream_commits
differs(all_new_upstream_commits, offsetIndex, unseen_new_upstream_commits) ==
    ~CommitListEq(slice_from(all_new_upstream_commits, offsetIndex),
                  unseen_new_upstream_commits)

\* Step 6 populates the all-new list
populate_targets_all_new(all_new_upstream_commits, unseen_new_upstream_commits) ==
    all_new_upstream_commits

\* the list whose commits Step 6 populates
populate_targets(all_new_upstream_commits, unseen_new_upstream_commits) ==
    unseen_new_upstream_commits

\* the finally block without shutil.rmtree(tmpdirname)
finally_block_keeps_tmpdir(f) == [f EXCEPT !.cwd = "original_dir"]

\* the finally block: os.chdir(original_dir); shutil.rmtree(tmpdirname)
finally_block(f) == [cwd |-> "original_dir", tmpdir |-> FALSE]

-----------------------------------------------------------------------------
(* State *)

NoLocals ==
    [current_branch |-> <<>>,
     containing_branches |-> <<>>,
     all_new_upstream_commits |-> <<>>,
     most_recent_job |-> <<>>,
     most_recent_job_newer_than_library_rev |-> FALSE,
     unseen_new_upstream_commits |-> <<>>,
     offsetIndex |-> 0,
     populating |-> 0]

NoTrace ==
    [commits_since_calls |-> 0,
     populate_calls |-> <<>>,
     suffix_checked |-> FALSE,
     jobs_inspected |-> FALSE,
     run_failed |-> FALSE]

NoArgs == [revision |-> <<>>, branch |-> "", jobs |-> <<>>]

NoOutcome == [kind |-> "none", value |-> <<>>]

Return(value) == [kind |-> "return", value |-> value]

Raise(exception) == [kind |-> "raise", value |-> exception]

JobRecords == {[version |-> <<Revision(c)>>, bugzilla_id |-> c] : c \in Commits}

JobLists == UNION {[1..n -> JobRecords] : n \in 0..MaxJobs}

\* no Commit object has been constructed
NoCommit == [made |-> FALSE, self |-> <<>>, raised |-> <<>>, first |-> <<>>]

\* Python values of the failure-classification cache: None, a dict of id -> name
\* (its items), and the attribute being absent after del
None == [type |-> "NoneType", items |-> {}]

Dict(items) == [type |-> "dict", items |-> items]

Unbound == [type |-> "unbound", items |-> {}]

NoCallArgs == [op |-> "none", revision |-> <<>>, job_list |-> <<>>, retrigger_list |-> <<>>,
               assertions |-> TRUE]

NoCallLocals ==
    [decision_task |-> <<>>, actions |-> <<>>, retrigger_action |-> <<>>, payload |-> <<>>,
     r |-> <<>>,
     push_id |-> <<>>, job_list |-> <<>>, property_names |-> <<>>, pages |-> <<>>]

\* no TaskclusterProvider method has been called
NoCall == [pc |-> "idle", args |-> NoCallArgs, locals |-> NoCallLocals,
           outcome |-> NoOutcome, history |-> <<>>]

\* the branch the clone has checked out: task.branch, or the default branch
HEAD == IF args.branch # "" THEN args.branch ELSE DefaultBranch

Init ==
    /\ parents = [c \in {0} |-> {}]
    /\ tip = [b \in Branches |-> 0]
    /\ date_text \in DateTexts
    /\ diff_text \in DiffTexts
    /\ pc = "idle"
    /\ args = NoArgs
    /\ locals = NoLocals
    /\ fs = [cwd |-> "original_dir", tmpdir |-> FALSE]
    /\ outcome = NoOutcome
    /\ log = <<>>
    /\ trace = NoTrace
    /\ first = <<>>
    /\ filed = <<>>
    /\ commit = NoCommit
    /\ _failure_classifications = None
    /\ requests = <<>>
    /\ tc = NoCall

-----------------------------------------------------------------------------
(* Upstream activity and the driver, between two calls *)

\* a commit is pushed to branch b: on top of its tip, or merging the other branch into it
UpstreamCommit(b, merge) ==
    LET n == Cardinality(Commits)
    IN  /\ pc = "idle"
        /\ n < MaxCommits
        /\ merge => tip[OtherBranch(b)] \notin Reach(tip[b])
        /\ parents' = [c \in Commits \cup {n} |->
                          IF c # n THEN parents[c]
                          ELSE IF merge THEN {tip[b], tip[OtherBranch(b)]} ELSE {tip[b]}]
        /\ tip' = [tip EXCEPT ![b] = n]
        /\ UNCHANGED <<runner_vars, commit, taskcluster_vars, pc, args, locals, fs, outcome, log, trace, first, filed>>

\* a forced push: branch b is moved back to a commit c of its history
UpstreamForcePush(b, c) ==
    /\ pc = "idle"
    /\ c \in Reach(tip[b]) \ {tip[b]}
    /\ tip' = [tip EXCEPT ![b] = c]
    /\ UNCHANGED <<parents, runner_vars, commit, taskcluster_vars, pc, args, locals, fs, outcome, log, trace, first, filed>>

\* the driver files a job for the batch the call returned; the job's version is the
\* revision it ran against, the newest commit of the batch
RecordJob ==
    /\ pc = "done"
    /\ outcome.kind = "return"
    /\ outcome.value # <<>>
    /\ filed' = << [branch |-> args.branch,
                    version |-> outcome.value[Len(outcome.value)].revision,
                    commits |-> {outcome.value[i].revision : i \in 1..Len(outcome.value)}] >>
    /\ pc' = "idle"
    /\ args' = NoArgs
    /\ locals' = NoLocals
    /\ outcome' = NoOutcome
    /\ log' = <<>>
    /\ trace' = NoTrace
    /\ first' = <<>>
    /\ UNCHANGED <<upstream_vars, runner_vars, commit, taskcluster_vars, fs>>

\* the driver goes on without filing anything
Forget ==
    /\ pc = "done"
    /\ pc' = "idle"
    /\ args' = NoArgs
    /\ locals' = NoLocals
    /\ outcome' = NoOutcome
    /\ log' = <<>>
    /\ trace' = NoTrace
    /\ first' = <<>>
    /\ UNCHANGED <<upstream_vars, runner_vars, commit, taskcluster_vars, fs, filed>>

-----------------------------------------------------------------------------
(* SCMProvider.check_for_update *)

\* original_dir = os.getcwd(); tmpdirname = tempfile.mkdtemp(); os.chdir(tmpdirname)
Enter(a) ==
    /\ args' = a
    /\ locals' = NoLocals
    /\ fs' = [cwd |-> "tmpdirname", tmpdir |-> TRUE]
    /\ outcome' = NoOutcome
    /\ log' = <<>>
    /\ trace' = NoTrace
    /\ pc' = "step0"

\* the driver calls check_for_update(library, task, all_library_jobs)
Call(revision, branch, jobs) ==
    /\ pc = "idle"
    /\ Enter([revision |-> revision, branch |-> branch, jobs |-> jobs])
    /\ first' = <<>>
    /\ UNCHANGED <<upstream_vars, runner_vars, commit, taskcluster_vars, filed>>

\* the driver calls check_for_update again, right away, with the same arguments
CallAgain ==
    /\ pc = "done"
    /\ first = <<>>
    /\ Enter(args)
    /\ first' = <<outcome>>
    /\ UNCHANGED <<upstream_vars, runner_vars, commit, taskcluster_vars, filed>>

\* leave the try block with a return value or an exception: the finally block
\* (Step 7) runs, then the value or the exception reaches the caller (Step 8)
Leave(o) ==
    /\ outcome' = o
    /\ fs' = finally_block(fs)
    /\ pc' = "done"

\* go on inside the try block
Goto(step) ==
    /\ pc' = step
    /\ UNCHANGED <<outcome, fs>>

\* Step 0: git clone, git checkout
Step0 ==
    /\ pc = "step0"
    /\ pc' = "step1"
    /\ UNCHANGED <<upstream_vars, runner_vars, commit, taskcluster_vars, args, locals, fs, outcome, log, trace, first, filed>>

\* Step 1: the current branch must contain library.revision
Step1 ==
    /\ pc = "step1"
    /\ LET current_branch == strip(GitRevParse(HEAD))
           ret == GitBranchContains(args.revision, HEAD)
           lines == split(ret)
           containing_branches == [i \in 1..Len(lines) |-> strip(replace(lines[i], "*"))]
           log1 == log \o << <<"Debug", "Our current branch is %s.", current_branch>>,
                             <<"Debug", "Containing branches are %s.", containing_branches>> >>
       IN  /\ locals' = [locals EXCEPT !.current_branch = current_branch,
                                       !.containing_branches = containing_branches]
           /\ IF not_contained(current_branch, containing_branches)
              THEN /\ log' = log1
                        \o << <<"Error", "Current Branch: %s", current_branch>>,
                              <<"Error", "Branches (%s):", Len(containing_branches)>> >>
                        \o [i \in 1..Len(containing_branches) |->
                               <<"Error", "  - %s", containing_branches[i]>>]
                   /\ Leave(Raise(<<"Exception",
                          "The current revision %s is not contained in the current branch %s.",
                          args.revision, current_branch>>))
              ELSE /\ log' = log1
                   /\ Goto("step2")
    /\ UNCHANGED <<upstream_vars, runner_vars, commit, taskcluster_vars, args, trace, first, filed>>

\* Step 2: the commits between library.revision and HEAD
Step2 ==
    /\ pc = "step2"
    /\ LET r == _commits_since(args.revision, HEAD)
       IN  /\ trace' = [trace EXCEPT !.commits_since_calls = @ + 1]
           /\ IF r.raised
              THEN /\ Leave(Raise(IndexError))
                   /\ UNCHANGED <<locals, log>>
              ELSE /\ locals' = [locals EXCEPT !.all_new_upstream_commits = r.value]
                   /\ IF no_new_commits(r.value)
                      THEN /\ log' = Append(log, <<"Info",
                                  "Checking for updates to %s but no new upstream commits were found from our current in-tree revision %s.",
                                  <<"library">>, args.revision>>)
                           /\ Leave(Return(<<>>))
                      ELSE /\ Goto("step3")
                           /\ UNCHANGED log
    /\ UNCHANGED <<upstream_vars, runner_vars, commit, taskcluster_vars, args, first, filed>>

\* Step 3 and the first Step 4: the most recent job, and whether its version is one
\* of the new upstream commits
Step3 ==
    /\ pc = "step3"
    /\ LET most_recent_job == IF args.jobs # <<>> THEN <<args.jobs[1]>> ELSE <<>>
           all_new == locals.all_new_upstream_commits
           newer == /\ most_recent_job # <<>>
                    /\ version_in(most_recent_job[1], all_new)
       IN  /\ locals' = [locals EXCEPT !.most_recent_job = most_recent_job,
                                       !.most_recent_job_newer_than_library_rev = newer]
           /\ log' = Append(log,
                 IF most_recent_job = <<>>
                 THEN <<"Debug", "We've never run a job for this library before.">>
                 ELSE IF newer
                 THEN <<"Debug", "The most recent job we have run is for a revision still upstream and not in the mozilla repo.">>
                 ELSE <<"Debug", "The most recent job we have run is older than the current revision in the mozilla repo.">>)
    /\ trace' = [trace EXCEPT !.jobs_inspected = TRUE]
    /\ pc' = "step4"
    /\ UNCHANGED <<upstream_vars, runner_vars, commit, taskcluster_vars, args, fs, outcome, first, filed>>

\* the second Step 4: the commits between the most recent job's version and HEAD,
\* or all the new upstream commits
Step4 ==
    /\ pc = "step4"
    /\ IF locals.most_recent_job_newer_than_library_rev
       THEN LET job == locals.most_recent_job[1]
                r == _commits_since(job.version, HEAD)
            IN  /\ trace' = [trace EXCEPT !.commits_since_calls = @ + 1]
                /\ IF r.raised
                   THEN /\ Leave(Raise(IndexError))
                        /\ UNCHANGED <<locals, log>>
                   ELSE /\ locals' = [locals EXCEPT !.unseen_new_upstream_commits = r.value]
                        /\ IF no_unseen_commits(r.value)
                           THEN /\ log' = Append(log, <<"Info",
                                       "Already processed revision %s in bug %s",
                                       job.version, job.bugzilla_id>>)
                                /\ Leave(Return(<<>>))
                           ELSE /\ Goto("step5")
                                /\ UNCHANGED log
       ELSE /\ locals' = [locals EXCEPT !.unseen_new_upstream_commits =
                                            locals.all_new_upstream_commits,
                                        !.populating = 1]
            /\ Goto("step6")
            /\ UNCHANGED <<log, trace>>
    /\ UNCHANGED <<upstream_vars, runner_vars, commit, taskcluster_vars, args, first, filed>>

\* Step 5: the unseen list must be the tail of the all-new list
Step5 ==
    /\ pc = "step5"
    /\ LET all_new == locals.all_new_upstream_commits
           unseen == locals.unseen_new_upstream_commits
           offsetIndex == offset_index(all_new, unseen)
           log1 == Append(log, <<"Debug",
                       "The first unseen upstream commit is offset %s entries into the %s upstream commits.",
                       offsetIndex, Len(all_new)>>)
           error_func(problem) ==
               _print_differing_commit_lists(all_new, "all_new_upstream_commits",
                                             unseen, "unseen_new_upstream_commits", problem)
           more == "There are more unseen upstream commits than new upstream commits??"
           unordered == "unseen_new_upstream_commits is not a strict ordered subset of all_new_upstream_commits"
       IN  IF offsetIndex = Len(all_new)
           THEN /\ log' = log1
                /\ locals' = [locals EXCEPT !.offsetIndex = offsetIndex]
                /\ Leave(Raise(<<"AssertionError",
                       "Somehow the offset index is the length of the array even though we checked the length already">>))
           ELSE IF offsetIndex < 0
           THEN /\ log' = log1 \o error_func(more)
                /\ locals' = [locals EXCEPT !.offsetIndex = offsetIndex]
                /\ Leave(Raise(<<"Exception", more>>))
           ELSE IF differs(all_new, offsetIndex, unseen)
           THEN /\ log' = log1 \o error_func(unordered)
                /\ locals' = [locals EXCEPT !.offsetIndex = offsetIndex]
                /\ Leave(Raise(<<"Exception", unordered>>))
           ELSE /\ log' = log1
                /\ locals' = [locals EXCEPT !.offsetIndex = offsetIndex, !.populating = 1]
                /\ Goto("step6")
    /\ trace' = [trace EXCEPT !.suffix_checked = TRUE]
    /\ UNCHANGED <<upstream_vars, runner_vars, commit, taskcluster_vars, args, first, filed>>

\* Step 6: one turn of [c.populate_details(self.run) for c in unseen_new_upstream_commits]
Step6 ==
    /\ pc = "step6"
    /\ LET targets == populate_targets(locals.all_new_upstream_commits,
                                       locals.unseen_new_upstream_commits)
           i == locals.populating
       IN  IF i > Len(targets)
           \* the comprehension over an empty list makes no call
           THEN /\ Leave(Return(locals.unseen_new_upstream_commits))
                /\ UNCHANGED <<locals, trace>>
           ELSE LET r == populate_details(targets[i])
                    unseen == [locals.unseen_new_upstream_commits EXCEPT ![i] = r.commit]
                IN  /\ trace' = [trace EXCEPT !.populate_calls = Append(@, targets[i].revision)]
                    \* without a job version among them, both names are bound to one list
                    /\ locals' = [locals EXCEPT
                           !.unseen_new_upstream_commits = unseen,
                           !.all_new_upstream_commits =
                               IF locals.most_recent_job_newer_than_library_rev THEN @ ELSE unseen,
                           !.populating = i + 1]
                    /\ IF r.raised
                       THEN Leave(Raise(IndexError))
                       ELSE IF i = Len(targets)
                       THEN Leave(Return(unseen))
                       ELSE Goto("step6")
    /\ UNCHANGED <<upstream_vars, runner_vars, commit, taskcluster_vars, args, log, first, filed>>

\* self.run raises: the git command of this step failed
RunFails ==
    /\ \/ pc \in {"step0", "step1", "step2", "step6"}
       \/ pc = "step4" /\ locals.most_recent_job_newer_than_library_rev
    /\ trace' = [trace EXCEPT
           !.run_failed = TRUE,
           !.commits_since_calls = IF pc \in {"step2", "step4"} THEN @ + 1 ELSE @,
           !.populate_calls =
               IF pc = "step6"
               THEN Append(@, populate_targets(locals.all_new_upstream_commits,
                                  locals.unseen_new_upstream_commits)[locals.populating].revision)
               ELSE @]
    /\ Leave(Raise(<<"CalledProcessError", "git">>))
    /\ UNCHANGED <<upstream_vars, runner_vars, commit, taskcluster_vars, args, locals, log, first, filed>>

-----------------------------------------------------------------------------

Next ==
    \/ \E b \in Branches, merge \in BOOLEAN : UpstreamCommit(b, merge)
    \/ \E b \in Branches, c \in Commits : UpstreamForcePush(b, c)
    \/ \E c \in Commits, branch \in TaskBranches, jobs \in JobLists :
           Call(<<Revision(c)>>, branch, jobs)
    \/ Step0
    \/ Step1
    \/ Step2
    \/ Step3
    \/ Step4
    \/ Step5
    \/ Step6
    \/ RunFails
    \/ Forget

\* any upstream history, any single call
Spec == Init /\ [][Next]_vars

NextTwice ==
    \/ Next
    \/ CallAgain

\* calls that are repeated with identical inputs
SpecTwice == Init /\ [][NextTwice]_vars

NextCycles ==
    \/ Next
    \/ RecordJob

\* reconciliation cycles in which the driver records a job for a returned batch
SpecCycles == Init /\ [][NextCycles]_vars

-----------------------------------------------------------------------------
(* check_for_update on upstream histories that hold a merge *)

\* main 0 - 1 - 2 and dev 0 - 3, then main merges dev in 4;
\* main 0 - 1 and dev 0 - 2, then main merges dev in 3
MergedHistories ==
    { [parents |-> [c \in 0..4 |-> CASE c = 0 -> {}
                                      [] c = 1 -> {0}
                                      [] c = 2 -> {1}
                                      [] c = 3 -> {0}
                                      [] c = 4 -> {2, 3}],
       tip |-> [b \in Branches |-> IF b = "main" THEN 4 ELSE 3]],
      [parents |-> [c \in 0..3 |-> CASE c = 0 -> {}
                                      [] c = 1 -> {0}
                                      [] c = 2 -> {0}
                                      [] c = 3 -> {1, 2}],
       tip |-> [b \in Branches |-> IF b = "main" THEN 3 ELSE 2]] }

InitMerged ==
    /\ \E h \in MergedHistories : parents = h.parents /\ tip = h.tip
    /\ date_text \in DateTexts
    /\ diff_text \in DiffTexts
    /\ pc = "idle"
    /\ args = NoArgs
    /\ locals = NoLocals
    /\ fs = [cwd |-> "original_dir", tmpdir |-> FALSE]
    /\ outcome = NoOutcome
    /\ log = <<>>
    /\ trace = NoTrace
    /\ first = <<>>
    /\ filed = <<>>
    /\ commit = NoCommit
    /\ _failure_classifications = None
    /\ requests = <<>>
    /\ tc = NoCall

NextCall ==
    \/ \E c \in Commits, branch \in TaskBranches, jobs \in JobLists :
           Call(<<Revision(c)>>, branch, jobs)
    \/ Step0
    \/ Step1
    \/ Step2
    \/ Step3
    \/ Step4
    \/ Step5
    \/ Step6
    \/ RunFails
    \/ Forget

\* any call on a merged history that upstream leaves alone
SpecMerged == InitMerged /\ [][NextCall]_vars

-----------------------------------------------------------------------------
(* A Commit object on its own *)

\* the lines git log --pretty=%H|%ai|%ci prints
PrettyLines ==
    { <<Revision(c), "|">> \o date_text \o <<"|">> \o date_text : c \in 0..(MaxCommits - 1) }

InitCommit ==
    /\ parents = [c \in {0} |-> {}]
    /\ tip = [b \in Branches |-> 0]
    /\ date_text \in DateTexts
    /\ diff_text \in NameStatusTexts
    /\ pc = "idle"
    /\ args = NoArgs
    /\ locals = NoLocals
    /\ fs = [cwd |-> "original_dir", tmpdir |-> FALSE]
    /\ outcome = NoOutcome
    /\ log = <<>>
    /\ trace = NoTrace
    /\ first = <<>>
    /\ filed = <<>>
    /\ commit = NoCommit
    /\ _failure_classifications = None
    /\ requests = <<>>
    /\ tc = NoCall

\* Commit(pretty_line)
NewCommit(pretty_line) ==
    /\ ~commit.made
    /\ LET r == Commit(pretty_line)
       IN  /\ ~r.raised
           /\ commit' = [made |-> TRUE, self |-> r.commit, raised |-> <<>>, first |-> <<>>]
    /\ UNCHANGED <<scm_vars, taskcluster_vars>>

\* commit.populate_details(run), the commit keeping what the call did to it
PopulateDetails ==
    /\ commit.made
    /\ Len(commit.raised) < MaxPopulateCalls
    /\ LET r == populate_details(commit.self[1])
       IN  commit' = [commit EXCEPT !.self = <<r.commit>>,
                                    !.raised = Append(@, r.raised),
                                    !.first = IF @ = <<>> THEN <<r.commit>> ELSE @]
    /\ UNCHANGED <<scm_vars, taskcluster_vars>>

NextCommit ==
    \/ \E pretty_line \in PrettyLines : NewCommit(pretty_line)
    \/ PopulateDetails

\* one Commit object, any diff output, populate_details called on it repeatedly
SpecCommit == InitCommit /\ [][NextCommit]_vars

-----------------------------------------------------------------------------
(* class TaskclusterProvider: the HTTP collaborators *)

\* We want to run tests a total of four times
TRIGGER_TOTAL == 4

\* what requests.get / requests.post hand back for each endpoint: the request itself
\* raising (error), or a response whose body parses as JSON or does not

\* api/failureclassification/: a JSON list of {id, name}
ClassificationResponses ==
    { [error |-> TRUE, json |-> FALSE, items |-> {}],
      [error |-> FALSE, json |-> FALSE, items |-> {}] } \cup
    { [error |-> FALSE, json |-> TRUE, items |-> items] :
        items \in {{}, {<<1, "intermittent">>}, {<<1, "intermittent">>, <<2, "fixed by commit">>}} }

\* api/project/try/push/?revision=: a JSON object with or without results[0].id
PushResponses ==
    { [error |-> TRUE, json |-> FALSE, push_id |-> <<>>],
      [error |-> FALSE, json |-> FALSE, push_id |-> <<>>] } \cup
    { [error |-> FALSE, json |-> TRUE, push_id |-> id] : id \in {<<>>, <<7>>} }

\* the job_property_names a page may carry
PropertyNameLists == {<<>>, <<"id">>, <<"id", "state">>, <<"state", "id">>}

\* api/jobs/?push_id=: one page, its results as wide as its job_property_names
JobPages ==
    { [error |-> TRUE, json |-> FALSE, job_property_names |-> <<>>, results |-> <<>>],
      [error |-> FALSE, json |-> FALSE, job_property_names |-> <<>>, results |-> <<>>] } \cup
    UNION { { [error |-> FALSE, json |-> TRUE, job_property_names |-> names,
               results |-> results] :
                results \in {<<>>, << [i \in 1..Len(names) |-> i] >>} } :
            names \in PropertyNameLists }

\* the pages the service holds for one push: every page but the last names a next one
PageLists == UNION {[1..n -> JobPages] : n \in 1..MaxPages}

JobTypeNames == {"Gecko Decision Task", "test-linux1804-64/opt-xpcshell"}

Jobs == { [job_type_name |-> n, task_id |-> t] : n \in JobTypeNames, t \in {"T1", "T2"} }

\* the job_list and the retrigger_list handed to retrigger_jobs
JobListings == UNION {[1..n -> Jobs] : n \in 0..MaxListed}

RetriggerListings == UNION {[1..n -> Jobs] : n \in 0..1}

\* the actions of a decision task's actions.json, each a hook action
Actions ==
    { [name |-> n, hookGroupId |-> "project-gecko", hookId |-> "in-tree-action-1",
       taskGroupId |-> "G1"] :
        n \in {"retrigger-multiple", "cancel-all"} }

\* artifacts/public/actions.json
ActionsResponses ==
    { [error |-> TRUE, json |-> FALSE, text |-> "", actions |-> <<>>],
      [error |-> FALSE, json |-> FALSE, text |-> "<html>404</html>", actions |-> <<>>] } \cup
    { [error |-> FALSE, json |-> TRUE, text |-> "{\"actions\": [...]}", actions |-> a] :
        a \in UNION {[1..n -> Actions] : n \in 0..MaxListed} }

\* api/hooks/v1/hooks/<hookGroupId>/<hookId>/trigger
TriggerResponses ==
    { [error |-> TRUE, status_code |-> 0, json |-> FALSE, text |-> "", taskId |-> ""] } \cup
    { [error |-> FALSE, status_code |-> code, json |-> j,
       text |-> IF j THEN "{\"status\": {\"taskId\": \"T9\"}}" ELSE "<html>Bad Gateway</html>",
       taskId |-> IF j THEN "T9" ELSE ""] :
        code \in {200, 502}, j \in BOOLEAN }

-----------------------------------------------------------------------------
(* TaskclusterProvider.failure_classifications *)

\* Python's truth value of the cache: None and the empty dict are false
truth(v) == v.type = "dict" /\ v.items # {}

\* the property's getter; response is what the service answers if it is asked
_get_failure_classifications(response) ==
    /\ Len(tc.history) < MaxAccesses
    /\ IF _failure_classifications.type = "unbound"
       THEN /\ tc' = [tc EXCEPT !.history = Append(@, <<"get", FALSE, "AttributeError">>)]
            /\ UNCHANGED <<_failure_classifications, requests>>
       ELSE IF ~truth(_failure_classifications)
       THEN /\ requests' = Append(requests, <<"GET", "api/failureclassification/">>)
            /\ IF response.error
               THEN /\ tc' = [tc EXCEPT !.history = Append(@, <<"get", TRUE, "ConnectionError">>)]
                    /\ UNCHANGED _failure_classifications
               ELSE IF ~response.json
               THEN /\ tc' = [tc EXCEPT !.history = Append(@, <<"get", TRUE, "Exception">>)]
                    /\ UNCHANGED _failure_classifications
               ELSE /\ _failure_classifications' = Dict(response.items)
                    /\ tc' = [tc EXCEPT !.history = Append(@, <<"get", TRUE, "dict">>)]
       ELSE /\ tc' = [tc EXCEPT !.history = Append(@, <<"get", FALSE, "dict">>)]
            /\ UNCHANGED <<_failure_classifications, requests>>
    /\ UNCHANGED <<scm_vars, commit>>

\* the property's setter
_set_failure_classifications(v) ==
    /\ Len(tc.history) < MaxAccesses
    /\ _failure_classifications' = v
    /\ tc' = [tc EXCEPT !.history = Append(@, <<"set", FALSE, v.type>>)]
    /\ UNCHANGED <<scm_vars, commit, requests>>

\* the property's deleter: del self._failure_classifications
_del_failure_classifications ==
    /\ Len(tc.history) < MaxAccesses
    /\ IF _failure_classifications.type = "unbound"
       THEN /\ tc' = [tc EXCEPT !.history = Append(@, <<"del", FALSE, "AttributeError">>)]
            /\ UNCHANGED _failure_classifications
       ELSE /\ _failure_classifications' = Unbound
            /\ tc' = [tc EXCEPT !.history = Append(@, <<"del", FALSE, "deleted">>)]
    /\ UNCHANGED <<scm_vars, commit, requests>>

NextCache ==
    \/ \E response \in ClassificationResponses : _get_failure_classifications(response)
    \/ \E v \in {None, Dict({<<1, "intermittent">>})} : _set_failure_classifications(v)
    \/ _del_failure_classifications

\* any sequence of reads, sets and deletes of the property
SpecCache == Init /\ [][NextCache]_vars

-----------------------------------------------------------------------------
(* TaskclusterProvider.get_job_details *)

\* Struct(**d) for one job: the property names paired with the job's values
Struct(property_names, j) == {<<property_names[i], j[i]>> : i \in 1..Len(property_names)}

\* TaskclusterProvider._transform_job_list; [raised, value]
_transform_job_list(property_names, job_list) ==
    IF \E k \in 1..Len(job_list) : Len(job_list[k]) < Len(property_names)
    THEN [raised |-> TRUE, value |-> <<>>]
    ELSE [raised |-> FALSE,
          value |-> [k \in 1..Len(job_list) |-> Struct(property_names, job_list[k])]]

\* the for loop that compares a later page's job_property_names with the first ones
names_mismatch(property_names, job_property_names) ==
    \E i \in 1..Len(property_names) :
        \/ Len(property_names) # Len(job_property_names)
        \/ property_names[i] # job_property_names[i]

RECURSIVE fetch_job_pages(_, _, _, _)
\* the while loop over job_details_url, from page k on;
\* [raised, job_list, property_names, fetched]
fetch_job_pages(pages, k, job_list, property_names) ==
    LET j == pages[k]
        extended == job_list \o j.results
        names == IF property_names = <<>> THEN j.job_property_names ELSE property_names
    IN  IF j.error \/ ~j.json
        THEN [raised |-> TRUE, job_list |-> job_list,
              property_names |-> property_names, fetched |-> k]
        ELSE IF property_names # <<>> /\ names_mismatch(property_names, j.job_property_names)
        THEN [raised |-> TRUE, job_list |-> extended,
              property_names |-> property_names, fetched |-> k]
        ELSE IF k = Len(pages)
        THEN [raised |-> FALSE, job_list |-> extended,
              property_names |-> names, fetched |-> k]
        ELSE fetch_job_pages(pages, k + 1, extended, names)

\* get_job_details(revision); push and pages are what the service answers
get_job_details(revision, push, pages) ==
    /\ tc.pc = "idle"
    /\ LET get_push == << <<"GET", "api/project/try/push/?revision=%s">> >>
           loop == fetch_job_pages(pages, 1, <<>>, <<>>)
           get_pages == [i \in 1..loop.fetched |-> <<"GET", "api/jobs/?push_id=%s">>]
           new_job_list == _transform_job_list(loop.property_names, loop.job_list)
           call == [tc EXCEPT !.pc = "done",
                              !.args = [NoCallArgs EXCEPT !.op = "get_job_details",
                                                          !.revision = revision],
                              !.locals = NoCallLocals]
       IN  IF push.error
           THEN /\ requests' = get_push
                /\ tc' = [call EXCEPT !.outcome = Raise(<<"ConnectionError", "requests.get">>)]
           ELSE IF ~push.json
           THEN /\ requests' = get_push
                /\ tc' = [call EXCEPT !.outcome = Raise(<<"Exception",
                       "Could not parse the result of the push_list as json. Url: %s Response:\n%s">>)]
           ELSE IF push.push_id = <<>>
           THEN /\ requests' = get_push
                /\ tc' = [call EXCEPT !.outcome = Raise(<<"Exception",
                       "Could not find the expected ['results'][0]['id'] from %s">>)]
           ELSE /\ requests' = get_push \o get_pages
                /\ tc' = [call EXCEPT
                       !.locals.push_id = push.push_id,
                       !.locals.job_list = loop.job_list,
                       !.locals.property_names = loop.property_names,
                       !.locals.pages = [i \in 1..loop.fetched |-> pages[i]],
                       !.outcome =
                           IF loop.raised
                           THEN Raise(<<"Exception",
                                        "Could not obtain all the job results for push id %s">>)
                           ELSE IF new_job_list.raised
                           THEN Raise(IndexError)
                           ELSE Return(new_job_list.value)]
    /\ UNCHANGED <<scm_vars, commit, _failure_classifications>>

-----------------------------------------------------------------------------
(* TaskclusterProvider.retrigger_jobs *)

\* the first job of the list is taken for the decision task, whatever its name
decision_task_any(job_list) ==
    IF job_list = <<>> THEN <<>> ELSE <<job_list[1]>>

\* the first job whose job_type_name is "Gecko Decision Task", if any
decision_task_of(job_list) ==
    LET found == {i \in 1..Len(job_list) : job_list[i].job_type_name = "Gecko Decision Task"}
    IN  IF found = {} THEN <<>> ELSE <<job_list[CHOOSE i \in found : \A k \in found : i <= k]>>

\* the first action named "retrigger-multiple", if any
retrigger_action_of(actions) ==
    LET found == {i \in 1..Len(actions) : actions[i].name = "retrigger-multiple"}
    IN  IF found = {} THEN <<>> ELSE <<actions[CHOOSE i \in found : \A k \in found : i <= k]>>

\* every status code is taken for a success
trigger_succeeded_always(status_code) == TRUE

\* r.status_code == 200
trigger_succeeded(status_code) == status_code = 200

\* the rendered hookPayload: the tasks to run again and how many more times
payload_of(retrigger_action, retrigger_list) ==
    [taskGroupId |-> retrigger_action.taskGroupId,
     tasks |-> [i \in 1..Len(retrigger_list) |-> retrigger_list[i].job_type_name],
     times |-> TRIGGER_TOTAL - 1]

\* retrigger_jobs(job_list, retrigger_list); assertions is whether the interpreter
\* runs assert statements, actions_json and trigger are what the services answer
retrigger_jobs(job_list, retrigger_list, assertions, actions_json, trigger) ==
    /\ tc.pc = "idle"
    /\ LET decision_task == decision_task_of(job_list)
           retrigger_action == retrigger_action_of(actions_json.actions)
           get_actions == << <<"GET", "api/queue/v1/task/%s/runs/0/artifacts/public/actions.json">> >>
           post_trigger == << <<"POST", "api/hooks/v1/hooks/%s/%s/trigger">> >>
           failed == <<"Exception",
                       "Task retrigger did not complete successfully (exception raised during processing), response is\n",
                       trigger.text>>
           call == [tc EXCEPT !.pc = "done",
                              !.args = [NoCallArgs EXCEPT !.op = "retrigger_jobs",
                                                          !.job_list = job_list,
                                                          !.retrigger_list = retrigger_list,
                                                          !.assertions = assertions],
                              !.locals = [NoCallLocals EXCEPT !.decision_task = decision_task]]
       IN  IF decision_task = <<>>
           THEN /\ requests' = <<>>
                /\ tc' = [call EXCEPT !.outcome =
                       IF assertions
                       THEN Raise(<<"AssertionError", "decision_task is not None">>)
                       ELSE Raise(<<"AttributeError", "'NoneType' object has no attribute 'task_id'">>)]
           ELSE IF actions_json.error
           THEN /\ requests' = get_actions
                /\ tc' = [call EXCEPT !.outcome = Raise(<<"ConnectionError", "requests.get">>)]
           ELSE IF ~actions_json.json
           THEN /\ requests' = get_actions
                /\ tc' = [call EXCEPT !.outcome = Raise(<<"Exception",
                       "Could not parse the result of the actions.json artifact as json. Url: %s Response:\n%s",
                       actions_json.text>>)]
           ELSE IF retrigger_action = <<>>
           THEN /\ requests' = get_actions
                /\ tc' = [call EXCEPT
                       !.locals.actions = <<actions_json.actions>>,
                       !.outcome =
                           IF assertions
                           THEN Raise(<<"AssertionError", "retrigger_action is not None">>)
                           ELSE Raise(<<"TypeError", "'NoneType' object is not subscriptable">>)]
           ELSE /\ requests' = get_actions \o post_trigger
                /\ tc' = [call EXCEPT
                       !.locals.actions = <<actions_json.actions>>,
                       !.locals.retrigger_action = retrigger_action,
                       !.locals.payload = <<payload_of(retrigger_action[1], retrigger_list)>>,
                       !.locals.r = IF trigger.error THEN <<>> ELSE <<trigger>>,
                       !.outcome =
                           IF trigger.error
                           THEN Raise(<<"ConnectionError", "requests.post">>)
                           ELSE IF trigger_succeeded(trigger.status_code)
                           THEN IF trigger.json THEN Return(trigger.taskId) ELSE Raise(failed)
                           ELSE Raise(failed)]
    /\ UNCHANGED <<scm_vars, commit, _failure_classifications>>

NextTaskcluster ==
    \/ \E push \in PushResponses, pages \in PageLists : get_job_details(<<"R1">>, push, pages)
    \/ \E job_list \in JobListings, retrigger_list \in RetriggerListings, assertions \in BOOLEAN,
          actions_json \in ActionsResponses, trigger \in TriggerResponses :
           retrigger_jobs(job_list, retrigger_list, assertions, actions_json, trigger)

\* any call of get_job_details or of retrigger_jobs, any answers of the services
SpecTaskcluster == Init /\ [][NextTaskcluster]_vars

-----------------------------------------------------------------------------
(* What the properties speak of *)

AllNew == locals.all_new_upstream_commits

Unseen == locals.unseen_new_upstream_commits

Revisions(commits) == [i \in 1..Len(commits) |-> commits[i].revision]

RevisionSet(commits) == {commits[i].revision : i \in 1..Len(commits)}

Returned == pc = "done" /\ outcome.kind = "return"

Raised == pc = "done" /\ outcome.kind = "raise"

\* Step 2 has produced a non-empty all-new list and the call went on to Step 3
Classified == trace.jobs_inspected

\* the most recent job's version is the revision of a commit of the all-new list
JobVersionInAllNew ==
    /\ Classified
    /\ args.jobs # <<>>
    /\ \E i \in 1..Len(AllNew) : AllNew[i].revision = args.jobs[1].version

\* the position of the most recent job's version in the all-new list, 0 when absent
JobPosition ==
    IF JobVersionInAllNew
    THEN CHOOSE i \in 1..Len(AllNew) : AllNew[i].revision = args.jobs[1].version
    ELSE 0

\* the commits git has between a revision and the tip of the checked-out branch
NewSince(revision) == Reach(tip[HEAD]) \ Reach(IdOf(revision))

\* a branch of the clone whose history holds library.revision
Contains(b) ==
    /\ \E i \in 1..Len(LocalBranches(HEAD)) : LocalBranches(HEAD)[i] = b
    /\ IdOf(args.revision) \in Reach(tip[b])

-----------------------------------------------------------------------------
(* Properties *)

\* C1: whenever check_for_update returns in the case where the most recent job's
\* version is a revision of all_new_upstream_commits, the returned list is, revision
\* by revision and in order, the tail of all_new_upstream_commits of the same length;
\* a call in which it is not that tail ends in an exception.
C1_SuffixInvariant ==
    (Returned /\ JobVersionInAllNew) =>
        /\ Len(outcome.value) <= Len(AllNew)
        /\ Revisions(outcome.value) =
               Revisions(SubSeq(AllNew, Len(AllNew) - Len(outcome.value) + 1, Len(AllNew)))

\* a call that returned a non-empty tail that starts after the job's version
C1_Witness ==
    /\ Returned
    /\ JobVersionInAllNew
    /\ outcome.value # <<>>
    /\ trace.suffix_checked

\* C2: in every call that has a prior job and returns, the commits of
\* all_new_upstream_commits up to and including the job's version, together with the
\* returned commits, are all the commits of all_new_upstream_commits.
C2_NoCommitLoss ==
    (Returned /\ args.jobs # <<>>) =>
        RevisionSet(SubSeq(AllNew, 1, JobPosition)) \cup RevisionSet(outcome.value)
            = RevisionSet(AllNew)

\* a call that returned the one commit after a job's version that two commits led to
C2_Witness ==
    /\ Returned
    /\ JobPosition >= 2
    /\ Len(outcome.value) >= 1

\* C3: once a call has returned a commit and a job was recorded with the version
\* that batch was filed for, no later call on the same branch whose most recent job
\* has that version returns the commit again.
C3_NoDuplication ==
    (/\ Returned
     /\ filed # <<>>
     /\ args.jobs # <<>>
     /\ args.jobs[1].version = filed[1].version
     /\ args.branch = filed[1].branch) =>
        RevisionSet(outcome.value) \cap filed[1].commits = {}

\* C4, as claimed: two calls in a row with identical inputs and no upstream activity
\* in between, both returning, return an empty list both times.
C4_EmptyBothTimes ==
    (Returned /\ first # <<>> /\ first[1].kind = "return") =>
        (first[1].value = <<>> /\ outcome.value = <<>>)

\* nothing follows library.revision on the checked-out branch
NothingNew == NewSince(args.revision) = {}

\* the most recent job's version is the tip of the checked-out branch
JobAtTip == args.jobs # <<>> /\ IdOf(args.jobs[1].version) = tip[HEAD]

\* C4, amended: two calls in a row with identical inputs and no upstream activity in
\* between, both returning, return the same list; the list is empty both times when
\* no upstream commit follows library.revision or the most recent job's version is
\* the tip of the branch.
C4_SameBothTimes ==
    (Returned /\ first # <<>> /\ first[1].kind = "return") =>
        /\ outcome.value = first[1].value
        /\ (NothingNew \/ JobAtTip) => outcome.value = <<>>

\* a repeated call that found new commits and a job at the tip, and returned
C4_Witness ==
    /\ Returned
    /\ first # <<>>
    /\ first[1].kind = "return"
    /\ JobAtTip
    /\ AllNew # <<>>

\* C5: when there is no prior job, or the most recent job's version is no revision of
\* all_new_upstream_commits, the call returns all of all_new_upstream_commits in
\* order, after one _commits_since call and no suffix check.
C5_CaseBReturnsAllNew ==
    (pc = "done" /\ Classified /\ ~JobVersionInAllNew /\ ~trace.run_failed) =>
        /\ outcome.kind = "return"
        /\ Revisions(outcome.value) = Revisions(AllNew)
        /\ trace.commits_since_calls = 1
        /\ ~trace.suffix_checked

\* C6: when the most recent job's version is a revision of all_new_upstream_commits
\* and no commit follows it, the call returns an empty list: no exception, no suffix
\* check, no commit populated.
C6_AlreadyProcessed ==
    (/\ pc = "done"
     /\ JobVersionInAllNew
     /\ ~trace.run_failed
     /\ NewSince(args.jobs[1].version) = {}) =>
        /\ outcome = Return(<<>>)
        /\ ~trace.suffix_checked
        /\ trace.populate_calls = <<>>

\* a call that asked git twice and found nothing after the job's version
C6_Witness ==
    /\ Returned
    /\ JobVersionInAllNew
    /\ NewSince(args.jobs[1].version) = {}
    /\ trace.commits_since_calls = 2

\* C7: when no commit follows library.revision, the call returns an empty list and
\* does nothing more: the job list is not looked at, _commits_since is not called
\* again, nothing is populated.
C7_NothingNew ==
    (/\ pc = "done"
     /\ trace.commits_since_calls >= 1
     /\ ~trace.run_failed
     /\ NothingNew) =>
        /\ outcome = Return(<<>>)
        /\ ~trace.jobs_inspected
        /\ trace.commits_since_calls = 1
        /\ trace.populate_calls = <<>>

\* a call that was handed a job and returned after its first look at the history
C7_Witness ==
    /\ Returned
    /\ NothingNew
    /\ trace.commits_since_calls = 1
    /\ args.jobs # <<>>

\* the exception carries the symbol in one of its arguments
Names(exception, symbol) ==
    \E k \in 3..Len(exception) : \E j \in 1..Len(exception[k]) : exception[k][j] = symbol

\* an Error-level log line lists the branch
LoggedBranch(b) ==
    \E i \in 1..Len(log) :
        log[i][1] = "Error" /\ log[i][2] = "  - %s" /\ log[i][3] = <<b>>

\* library.revision is not in the history of the checked-out branch
NotInBranch == IdOf(args.revision) \notin Reach(tip[HEAD])

C9_Cleanup ==
    pc = "done" => (fs.cwd = "original_dir" /\ ~fs.tmpdir)

\* a call that populate_details ended with an exception
C9_Witness ==
    /\ Raised
    /\ outcome.value = IndexError
    /\ trace.populate_calls # <<>>
    /\ ~fs.tmpdir

\* C10: populate_details is called only on commits of the unseen list, at most once
\* on each; when the most recent job's version is in all_new_upstream_commits, no
\* commit before the offset is populated.
C10_PopulationScope ==
    LET calls == trace.populate_calls
        offset == Len(AllNew) - Len(Unseen)
    IN  /\ \A i \in 1..Len(calls) : calls[i] \in RevisionSet(Unseen)
        /\ \A i, j \in 1..Len(calls) : calls[i] = calls[j] => i = j
        /\ JobVersionInAllNew =>
               \A k \in 1..offset : \A i \in 1..Len(calls) : calls[i] # AllNew[k].revision

\* a call that populated two commits after the job's version and returned them
C10_Witness ==
    /\ Returned
    /\ JobVersionInAllNew
    /\ Len(AllNew) - Len(Unseen) > 0
    /\ Len(trace.populate_calls) >= 2

\* what populate_details fills in
Details(c) ==
    <<c.files_modified, c.files_added, c.files_deleted, c.files_other, c.summary, c.description>>

\* C11: populate_details is idempotent: after a second call, with the same git output,
\* the commit's files_modified, files_added, files_deleted, files_other, summary and
\* description are what they were after the first call.
C11_PopulateIdempotent ==
    Len(commit.raised) >= 2 => Details(commit.self[1]) = Details(commit.first[1])

\* a commit populated twice without an exception, its summary set
C11_Witness ==
    /\ Len(commit.raised) = 2
    /\ ~commit.raised[1]
    /\ ~commit.raised[2]
    /\ commit.self[1].summary # Unset

\* the status<TAB>path entries of a git diff --name-status output, in order
NameStatusEntries(text) ==
    LET lines == split_sep(text, "\n")
        entry(line) == line # <<>>
    IN  [i \in 1..Len(SelectSeq(lines, entry)) |-> split_sep(SelectSeq(lines, entry)[i], "\t")]

\* the paths of the entries whose status is one of the given ones, in order
PathsWithStatus(text, statuses) ==
    LET has(e) == e[1] \in statuses
        es == SelectSeq(NameStatusEntries(text), has)
    IN  [i \in 1..Len(es) |-> es[i][2]]

\* C18: for a git diff --name-status output of lines status<TAB>path, populate_details
\* does not raise and puts each path with status M in files_modified, each with status
\* A in files_added, each with status D in files_deleted and every other entry in
\* files_other, one entry per changed file.
C18_FilesByStatus ==
    Len(commit.raised) >= 1 =>
        LET c == commit.first[1]
            known == {<<"M">>, <<"A">>, <<"D">>}
            entries == NameStatusEntries(diff_text)
            others == {i \in 1..Len(entries) : entries[i][1] \notin known}
        IN  /\ ~commit.raised[1]
            /\ c.files_modified = PathsWithStatus(diff_text, {<<"M">>})
            /\ c.files_added = PathsWithStatus(diff_text, {<<"A">>})
            /\ c.files_deleted = PathsWithStatus(diff_text, {<<"D">>})
            /\ Len(c.files_other) = Cardinality(others)

\* an Error-level log line lists the commit
LoggedCommit(c) ==
    \E i \in 1..Len(log) :
        log[i][1] = "Error" /\ log[i][2] = "  - %s" /\ log[i][3] = CommitStr(c)

\* the unseen list is longer than the all-new list
MoreUnseenThanNew == Len(Unseen) > Len(AllNew)

\* the unseen list is no longer than the all-new list and is not its tail
NotTheTail ==
    /\ Len(Unseen) <= Len(AllNew)
    /\ differs(AllNew, offset_index(AllNew, Unseen), Unseen)

\* C15: when the most recent job's version is in all_new_upstream_commits and the
\* unseen list is longer than the all-new list or is not its tail, the call ends with
\* an exception, every commit of both lists has been logged at Error level, and
\* populate_details has been called on no commit.
C15_SuffixFailure ==
    (pc = "done" /\ JobVersionInAllNew /\ (MoreUnseenThanNew \/ NotTheTail)) =>
        /\ outcome.kind = "raise"
        /\ outcome.value[1] = "Exception"
        /\ \A i \in 1..Len(AllNew) : LoggedCommit(AllNew[i])
        /\ \A i \in 1..Len(Unseen) : LoggedCommit(Unseen[i])
        /\ trace.populate_calls = <<>>

\* a call ended by the suffix check with more unseen commits than new ones
C15_Witness ==
    /\ Raised
    /\ JobVersionInAllNew
    /\ MoreUnseenThanNew
    /\ trace.suffix_checked

\* a call ended by the suffix check with as many unseen commits as new ones
C15_WitnessNotTheTail ==
    /\ Raised
    /\ JobVersionInAllNew
    /\ NotTheTail
    /\ trace.suffix_checked

\* the non-empty lines of a git log output, newest first
LogLines(text) ==
    LET nonempty(line) == line # <<>>
    IN  SelectSeq(split_sep(text, "\n"), nonempty)

\* C16: for a git log output of n lines revision|author date|commit date, newest
\* first, _commits_since returns n Commit records whose revisions are the lines'
\* revisions in reverse order; for an empty output it returns an empty list.
C16_OneCommitPerLine ==
    trace.commits_since_calls >= 1 =>
        LET lines == LogLines(GitLog(args.revision, HEAD))
            n == Len(lines)
            r == _commits_since(args.revision, HEAD)
        IN  /\ ~r.raised
            /\ Len(r.value) = n
            /\ \A i \in 1..n :
                   r.value[i].revision = split_sep(lines[n + 1 - i], "|")[1]

\* C19: the assertion offsetIndex != len(all_new_upstream_commits) never fails:
\* whenever control reaches it the unseen list is non-empty, and no call ends with
\* its AssertionError.
C19_AssertionHolds ==
    /\ pc = "step5" => Len(Unseen) > 0
    /\ (pc = "done" /\ outcome.kind = "raise") => outcome.value[1] # "AssertionError"

\* a call that went through the assertion and returned
C19_Witness ==
    /\ Returned
    /\ trace.suffix_checked
    /\ locals.offsetIndex < Len(AllNew)

\* the accesses to failure_classifications so far: <<access, fetched, result>>
History == tc.history

\* the i-th access set or deleted the property
IsWrite(i) == History[i][1] \in {"set", "del"}

\* the i-th access cleared the cache: del, or set to None
IsClear(i) ==
    \/ History[i][1] = "del" /\ History[i][3] = "deleted"
    \/ History[i][1] = "set" /\ History[i][3] = "NoneType"

\* the i-th access was a read that issued the HTTP request
IsFetch(i) == History[i][1] = "get" /\ History[i][2]

\* once a read has fetched the mapping, no later read fetches before a set or delete
C17_FetchedOnce ==
    \A i, j \in 1..Len(History) :
        (/\ i < j
         /\ IsFetch(i)
         /\ History[i][3] = "dict"
         /\ History[j][1] = "get"
         /\ \A k \in (i + 1)..(j - 1) : ~IsWrite(k)) => ~History[j][2]

\* a read that follows a clearing fetches again, and does not fail for want of a cache
C17_FetchedAgain ==
    \A i \in 1..(Len(History) - 1) :
        (IsClear(i) /\ History[i + 1][1] = "get") =>
            /\ History[i + 1][2]
            /\ History[i + 1][3] # "AttributeError"

\* C17: over reads of failure_classifications with no set or delete in between, the
\* HTTP request is issued at most once, the first read fetching and later reads
\* returning the cached mapping; after the cache is cleared the next read fetches again
\* and returns a mapping.
C17_CachedUntilCleared == C17_FetchedOnce /\ C17_FetchedAgain

\* a retrigger_jobs call has ended
Retriggered == tc.pc = "done" /\ tc.args.op = "retrigger_jobs"

\* the trigger POSTs the call has issued
Posts == {i \in 1..Len(requests) : requests[i][1] = "POST"}

\* the job_list handed in holds a decision job
HasDecisionJob ==
    \E i \in 1..Len(tc.args.job_list) :
        tc.args.job_list[i].job_type_name = "Gecko Decision Task"

\* the action catalog was fetched and parsed
CatalogFetched == tc.locals.actions # <<>>

\* the fetched action catalog holds the retrigger-multiple action
HasRetriggerAction ==
    /\ CatalogFetched
    /\ \E i \in 1..Len(tc.locals.actions[1]) :
           tc.locals.actions[1][i].name = "retrigger-multiple"

C13_MissingPrecondition ==
    Retriggered =>
        /\ ~HasDecisionJob => (tc.outcome.kind = "raise" /\ requests = <<>>)
        /\ (CatalogFetched /\ ~HasRetriggerAction) =>
               (tc.outcome.kind = "raise" /\ Posts = {})

\* a call handed jobs but no decision job
C13_Witness ==
    /\ Retriggered
    /\ tc.args.job_list # <<>>
    /\ ~HasDecisionJob
    /\ tc.outcome.kind = "raise"

\* a call whose action catalog holds actions but not retrigger-multiple
C13_WitnessNoAction ==
    /\ Retriggered
    /\ CatalogFetched
    /\ tc.locals.actions[1] # <<>>
    /\ ~HasRetriggerAction
    /\ tc.outcome.kind = "raise"

\* a get_job_details call has ended
JobDetailsDone == tc.pc = "done" /\ tc.args.op = "get_job_details"

\* the job-list pages the call fetched
Pages == tc.locals.pages

\* a fetched page after the first carries other job_property_names than the first
PageNamesDiffer ==
    \E k \in 2..Len(Pages) :
        /\ Pages[k].json
        /\ Pages[k].job_property_names # Pages[1].job_property_names

\* C14: when a job-list page after the first has job_property_names that differ from
\* the first page's, in length, in an element or in order, get_job_details raises and
\* returns no job list.
C14_PageNamesMustMatch ==
    (JobDetailsDone /\ Pages # <<>> /\ Pages[1].json /\ PageNamesDiffer) =>
        tc.outcome.kind = "raise"

====
